---- MODULE Spec2Model ----
(***************************************************************************)
(* Model of src/examples/examples_test.py: FlaskExamplesTest.              *)
(* _run_flask_target (lock, registry, port probe, process launch, status   *)
(* check, polling loop, cleanup) and tearDownClass (the coverage audit).   *)
(* Each thread of Threads is one caller of _run_flask_target; the external *)
(* process, the network and the file system are the environment.           *)
(***************************************************************************)
EXTENDS Integers, Sequences, FiniteSets, TLC

\* Number of threads that may call _run_flask_target concurrently.
NumThreads == 2

\* max_tries = 30 (examples_test.py line 115).
max_tries == 30

Threads == 1 .. NumThreads

\* The example names the callers pass (test_flask_* methods).
Examples == {"rules_venv", "rules_python"}

\* Entries of the examples directory that are never passed by a caller.
OtherEntries == {".hidden", "__pycache__"}

Names == Examples \cup OtherEntries

\* What a name is on disk: nothing, a directory without BUILD.bazel, or a
\* directory with BUILD.bazel.
DiskKinds == {"absent", "dir", "dir_build"}

\* Ephemeral ports the operating system may hand out.
Ports == {49152, 49153}

\* Exit codes of a process that ends by itself.
ExitCodes == {0, 1}

Bodies == {"hello world!", "goodbye world"}

\* What the network gives back for one GET: the connection is refused, the
\* server accepts and then stalls past the timeout, or a reply arrives.
Replies ==
    {[net |-> "refused", status |-> 0, body |-> ""],
     [net |-> "stalled", status |-> 0, body |-> ""]}
    \cup [net : {"reply"}, status : {200, 500}, body : Bodies]

NoReply == [net |-> "none", status |-> 0, body |-> ""]

VARIABLES
    disk,        \* the examples directory: name -> DiskKinds
    tested,      \* FlaskExamplesTest._tested_examples
    lock,        \* FlaskExamplesTest._test_lock (TRUE = locked)
    audit,       \* outcome of tearDownClass
    pc,          \* position of each thread in _run_flask_target
    example,     \* argument example of the current call
    port,        \* local port (<<>> = unset)
    sock,        \* probe socket of get_free_port: "none", "bound", "closed"
    proc,        \* the launched process: "none", "running", "exited"
    status,      \* exit status of the ended process, until the last wait collects it
    poll_result, \* local poll_result (<<>> = None)
    polls,       \* number of process.poll() calls made in this run
    env_port,    \* FLASK_RUN_PORT given to the process (<<>> = none)
    i,           \* loop variable of the polling loop
    logs,        \* local logs
    gets,        \* number of GETs issued in this run
    sleeps,      \* number of time.sleep(5) taken in this run
    last,        \* what the last GET of this run got back
    all_refused, \* every GET of this run so far was refused
    hellos,      \* statuses of the replies of this run whose body was the expected one
    calls,       \* cleanup calls made so far in this run
    pending,     \* what the try block left to deliver after the finally
    result       \* what the call delivered to its caller

vars == <<disk, tested, lock, audit, pc, example, port, sock, proc, status,
          poll_result, polls, all_refused, env_port, i, logs, gets, sleeps, last, hellos, calls,
          pending, result>>

None == <<>>

Some(x) == <<x>>

\* A result delivered to the caller, or left pending by the try block.
\* kind "none" as a pending result: the try block ran to its end.
Result(kind, code, log) == [kind |-> kind, code |-> code, logs |-> log]

NoResult == Result("none", None, <<>>)

\* urllib.request.urlopen: a refused connection raises URLError, an error
\* status raises HTTPError, a stall after the connection raises the
\* socket's timeout error, anything else returns the response.
urlopen(r) ==
    IF r.net = "refused" THEN "URLError"
    ELSE IF r.net = "stalled" THEN "TimeoutError"
    ELSE IF r.status >= 400 THEN "HTTPError"
    ELSE "response"

\* Mutant of Caught: except Exception.
CaughtAny(exc) == exc # "response"

\* Mutant of Caught: except HTTPError
CaughtHTTPErrorOnly(exc) == exc = "HTTPError"

\* except (HTTPError, URLError)
Caught(exc) == exc \in {"HTTPError", "URLError"}

\* str(exc) of the error raised by attempt n.
LogEntry(n) == n

\* str(port): the decimal digits of a port number.
RECURSIVE str(_)
str(n) == IF n < 10 THEN <<n>> ELSE Append(str(n \div 10), n % 10)

\* int(...) of a string of decimal digits.
RECURSIVE int(_)
int(s) == IF Len(s) = 0 THEN 0 ELSE 10 * int(SubSeq(s, 1, Len(s) - 1)) + s[Len(s)]

\* Mutant of FlaskRunPort: the variable is not set.
FlaskRunPortUnset(t) == None

\* env["FLASK_RUN_PORT"] = str(port)
FlaskRunPort(t) == Some(str(port[t][1]))

\* app.run(port=int(os.environ.get("FLASK_RUN_PORT", 5000))): the port the
\* process of thread t listens on.
ListenPort(t) == IF env_port[t] = None THEN 5000 ELSE int(env_port[t][1])

\* The ports the operating system will not hand out: bound probe sockets
\* and the ports of processes that have not exited.
PortsInUse ==
    UNION {IF sock[t] = "bound" THEN {port[t][1]} ELSE {} : t \in Threads}
    \cup UNION {IF proc[t] = "running" THEN {ListenPort(t)} ELSE {} : t \in Threads}

\* Mutant of Exists: the directory is not checked.
ExistsAlways(name) == TRUE

\* example_dir.exists()
Exists(name) == disk[name] # "absent"

\* The example directories tearDownClass finds.
ExampleDirs ==
    {n \in Names : /\ disk[n] # "absent"
                   /\ n \notin {".hidden", "__pycache__"}
                   /\ disk[n] = "dir_build"}

\* Mutant of AuditOf: the check for non-existent examples is missing.
AuditOfUntestedOnly(dirs, reg) ==
    LET untested == dirs \ reg
    IN IF untested # {} THEN [kind |-> "untested", names |-> untested]
       ELSE [kind |-> "pass", names |-> {}]

\* Mutant of AuditOf: the two checks are made in the other order.
AuditOfSwapped(dirs, reg) ==
    LET untested == dirs \ reg
        non_existent == reg \ dirs
    IN IF non_existent # {} THEN [kind |-> "non_existent", names |-> non_existent]
       ELSE IF untested # {} THEN [kind |-> "untested", names |-> untested]
       ELSE [kind |-> "pass", names |-> {}]

\* tearDownClass: the first failing check raises.
AuditOf(dirs, reg) ==
    LET untested == dirs \ reg
        non_existent == reg \ dirs
    IN IF untested # {} THEN [kind |-> "untested", names |-> untested]
       ELSE IF non_existent # {} THEN [kind |-> "non_existent", names |-> non_existent]
       ELSE [kind |-> "pass", names |-> {}]

NoAudit == [kind |-> "none", names |-> {}]

TypeOK ==
    /\ disk \in [Names -> DiskKinds]
    /\ tested \subseteq Names
    /\ lock \in BOOLEAN
    /\ pc \in [Threads -> {"idle", "lock", "register", "checkdir", "bind", "close",
                           "launch", "poll", "attempt", "terminate", "wait", "kill",
                           "waitkilled", "pause", "release", "done"}]
    /\ \A t \in Threads : i[t] \in 0 .. max_tries

\* The layout of src/examples: rules_venv is an example directory, and no
\* other example is there.
Layout ==
    [n \in Names |-> IF n = "rules_python" THEN "absent" ELSE "dir_build"]

\* Every layout of the example names; the other entries are directories
\* with a BUILD.bazel, which tearDownClass has to skip.
Layouts ==
    {d \in [Names -> DiskKinds] : \A n \in OtherEntries : d[n] = "dir_build"}

InitOn(layouts) ==
    /\ disk \in layouts
    /\ tested = {}
    /\ lock = FALSE
    /\ audit = NoAudit
    /\ pc = [t \in Threads |-> "idle"]
    /\ example = [t \in Threads |-> ""]
    /\ port = [t \in Threads |-> None]
    /\ sock = [t \in Threads |-> "none"]
    /\ proc = [t \in Threads |-> "none"]
    /\ status = [t \in Threads |-> None]
    /\ poll_result = [t \in Threads |-> None]
    /\ polls = [t \in Threads |-> 0]
    /\ all_refused = [t \in Threads |-> TRUE]
    /\ env_port = [t \in Threads |-> None]
    /\ i = [t \in Threads |-> 0]
    /\ logs = [t \in Threads |-> <<>>]
    /\ gets = [t \in Threads |-> 0]
    /\ sleeps = [t \in Threads |-> 0]
    /\ last = [t \in Threads |-> NoReply]
    /\ hellos = [t \in Threads |-> {}]
    /\ calls = [t \in Threads |-> <<>>]
    /\ pending = [t \in Threads |-> NoResult]
    /\ result = [t \in Threads |-> NoResult]

Init == InitOn({Layout})

InitAudit == InitOn(Layouts)

\* A caller enters _run_flask_target(example, target).
Call(t, ex) ==
    /\ pc[t] \in {"idle", "done"}
    /\ audit = NoAudit
    /\ pc' = [pc EXCEPT ![t] = "lock"]
    /\ example' = [example EXCEPT ![t] = ex]
    /\ proc' = [proc EXCEPT ![t] = "none"]
    /\ result' = [result EXCEPT ![t] = NoResult]
    /\ UNCHANGED <<polls, poll_result, all_refused, disk, tested, lock, audit, port, sock, status, env_port, i, logs,
                   gets, sleeps, last, hellos, calls, pending>>

\* Mutant of LockFree: the lock is not taken.
LockFreeAlways == TRUE

\* with self.__class__._test_lock: (entry)
LockFree == ~lock

AcquireLock(t) ==
    /\ pc[t] = "lock"
    /\ LockFree
    /\ lock' = TRUE
    /\ pc' = [pc EXCEPT ![t] = "register"]
    /\ UNCHANGED <<polls, poll_result, all_refused, disk, tested, audit, example, port, sock, proc, status, env_port,
                   i, logs, gets, sleeps, last, hellos, calls, pending, result>>

\* Mutant of add: the name is added after the directory check, which
\* raises for a missing directory.
addIfExists(reg, name) == IF disk[name] # "absent" THEN reg \cup {name} ELSE reg

\* set.add
add(reg, name) == reg \cup {name}

\* self.__class__._tested_examples.add(example)
Register(t) ==
    /\ pc[t] = "register"
    /\ tested' = add(tested, example[t])
    /\ pc' = [pc EXCEPT ![t] = "checkdir"]
    /\ UNCHANGED <<polls, poll_result, all_refused, disk, lock, audit, example, port, sock, proc, status, env_port,
                   i, logs, gets, sleeps, last, hellos, calls, pending, result>>

\* self.assertTrue(example_dir.exists(), ...)
CheckDir(t) ==
    /\ pc[t] = "checkdir"
    /\ IF Exists(example[t])
       THEN /\ pc' = [pc EXCEPT ![t] = "bind"]
            /\ UNCHANGED pending
       ELSE /\ pc' = [pc EXCEPT ![t] = "release"]
            /\ pending' = [pending EXCEPT ![t] = Result("target_not_found", None, <<>>)]
    /\ UNCHANGED <<polls, poll_result, all_refused, disk, tested, lock, audit, example, port, sock, proc, status,
                   env_port, i, logs, gets, sleeps, last, hellos, calls, result>>

\* get_free_port: s.bind(("", 0)); s.listen(1); port = s.getsockname()[1]
Bind(t) ==
    /\ pc[t] = "bind"
    /\ \E p \in Ports \ PortsInUse :
          port' = [port EXCEPT ![t] = Some(p)]
    /\ sock' = [sock EXCEPT ![t] = "bound"]
    /\ pc' = [pc EXCEPT ![t] = "close"]
    /\ UNCHANGED <<polls, poll_result, all_refused, disk, tested, lock, audit, example, proc, status, env_port, i,
                   logs, gets, sleeps, last, hellos, calls, pending, result>>

\* get_free_port: the with block closes the socket; return port
Close(t) ==
    /\ pc[t] = "close"
    /\ sock' = [sock EXCEPT ![t] = "closed"]
    /\ pc' = [pc EXCEPT ![t] = "launch"]
    /\ UNCHANGED <<polls, poll_result, all_refused, disk, tested, lock, audit, example, port, proc, status, env_port,
                   i, logs, gets, sleeps, last, hellos, calls, pending, result>>

\* env["FLASK_RUN_PORT"] = str(port); process = subprocess.Popen(...); logs = []
\* Popen raises OSError when the command cannot be started.
Launch(t) ==
    /\ pc[t] = "launch"
    /\ \/ /\ proc' = [proc EXCEPT ![t] = "running"]
          /\ env_port' = [env_port EXCEPT ![t] = FlaskRunPort(t)]
          /\ logs' = [logs EXCEPT ![t] = <<>>]
          /\ pc' = [pc EXCEPT ![t] = "poll"]
          /\ UNCHANGED pending
       \/ /\ pending' = [pending EXCEPT ![t] = Result("error", None, <<>>)]
          /\ pc' = [pc EXCEPT ![t] = "release"]
          /\ UNCHANGED <<proc, env_port, logs>>
    /\ UNCHANGED <<polls, poll_result, all_refused, disk, tested, lock, audit, example, port, sock, status, i, gets,
                   sleeps, last, hellos, calls, result>>

\* The process ends by itself, at any time before the cleanup; what it does
\* during the cleanup is what the waits of the cleanup find.
ProcExit(t) ==
    /\ proc[t] = "running"
    /\ pc[t] \in {"poll", "attempt"}
    /\ proc' = [proc EXCEPT ![t] = "exited"]
    /\ \E c \in ExitCodes : status' = [status EXCEPT ![t] = Some(c)]
    /\ UNCHANGED <<polls, poll_result, all_refused, disk, tested, lock, audit, pc, example, port, sock, env_port, i,
                   logs, gets, sleeps, last, hellos, calls, pending, result>>

\* process.poll(): the exit status when the process has ended, else None.
PollResult(t) == IF proc[t] = "exited" THEN status[t] ELSE None

\* Mutant of IsNotNone: if poll_result:
IsTruthy(x) == x # None /\ x[1] # 0

\* if poll_result is not None:
IsNotNone(x) == x # None

\* poll_result = process.poll(); if poll_result is not None: self.fail(...)
Poll(t) ==
    /\ pc[t] = "poll"
    /\ poll_result' = [poll_result EXCEPT ![t] = PollResult(t)]
    /\ polls' = [polls EXCEPT ![t] = @ + 1]
    /\ IF IsNotNone(PollResult(t))
       THEN /\ pending' = [pending EXCEPT ![t] = Result("premature_exit", PollResult(t), <<>>)]
            /\ pc' = [pc EXCEPT ![t] = "terminate"]
       ELSE /\ pc' = [pc EXCEPT ![t] = "attempt"]
            /\ UNCHANGED pending
    /\ UNCHANGED <<disk, tested, lock, audit, example, port, sock, proc, status,
                   all_refused, env_port, i, logs, gets, sleeps, last, hellos, calls,
                   result>>

\* The replies the network can give: nothing listens once the process has
\* exited.
PossibleReplies(t) ==
    IF proc[t] = "exited" THEN {r \in Replies : r.net = "refused"} ELSE Replies

\* for i in range(max_tries + 1): the number of iterations.
Tries == max_tries + 1

\* if i < max_tries: time.sleep(5)
SleepsAfter(n) == n < max_tries

\* self.assertEqual(content, "hello world!", ...)
Expected == "hello world!"

\* Mutant of BodyMatches: the body is not compared.
BodyMatchesAny(content) == TRUE

BodyMatches(content) == content = Expected

\* One iteration of the polling loop: urlopen, then the body check and the
\* return, or the except clause with its sleep.
Attempt(t, r) ==
    /\ pc[t] = "attempt"
    /\ r \in PossibleReplies(t)
    /\ gets' = [gets EXCEPT ![t] = @ + 1]
    /\ last' = [last EXCEPT ![t] = r]
    /\ all_refused' = [all_refused EXCEPT ![t] = @ /\ r.net = "refused"]
    /\ hellos' = [hellos EXCEPT ![t] =
                    IF r.net = "reply" /\ r.body = Expected THEN @ \cup {r.status} ELSE @]
    /\ LET exc == urlopen(r) IN
       IF exc = "response"
       THEN /\ pending' = [pending EXCEPT ![t] =
                             IF BodyMatches(r.body)
                             THEN Result("success", None, <<>>)
                             ELSE Result("content_mismatch", None, <<>>)]
            /\ pc' = [pc EXCEPT ![t] = "terminate"]
            /\ UNCHANGED <<i, logs, sleeps>>
       ELSE IF Caught(exc)
       THEN /\ logs' = [logs EXCEPT ![t] = Append(@, LogEntry(i[t]))]
            /\ sleeps' = [sleeps EXCEPT ![t] = IF SleepsAfter(i[t]) THEN @ + 1 ELSE @]
            /\ IF i[t] + 1 < Tries
               THEN /\ i' = [i EXCEPT ![t] = @ + 1]
                    /\ UNCHANGED pc
               ELSE /\ pc' = [pc EXCEPT ![t] = "terminate"]
                    /\ UNCHANGED i
            /\ UNCHANGED pending
       ELSE /\ pending' = [pending EXCEPT ![t] = Result("error", None, <<>>)]
            /\ pc' = [pc EXCEPT ![t] = "terminate"]
            /\ UNCHANGED <<i, logs, sleeps>>
    /\ UNCHANGED <<polls, poll_result, disk, tested, lock, audit, example, port, sock, proc, status,
                   env_port, calls, result>>

\* finally: process.terminate()
Terminate(t) ==
    /\ pc[t] = "terminate"
    /\ calls' = [calls EXCEPT ![t] = Append(@, "terminate")]
    /\ pc' = [pc EXCEPT ![t] = "wait"]
    /\ UNCHANGED <<polls, poll_result, all_refused, disk, tested, lock, audit, example, port, sock, proc, status,
                   env_port, i, logs, gets, sleeps, last, hellos, pending, result>>

\* Mutant of OnTimeoutExpired: the timeout is swallowed, nothing is killed.
OnTimeoutIgnored == "pause"

\* except subprocess.TimeoutExpired: process.kill() comes next.
OnTimeoutExpired == "kill"

\* Mutant of OnExited: there is no try around the wait, process.kill()
\* follows it in every case.
OnExitedKill == "kill"

\* process.wait(timeout=5) returned: the except clause is skipped and
\* time.sleep(1) comes next.
OnExited == "pause"

\* process.wait(timeout=5): the process has exited, or exits on the signal
\* within the grace period, or subprocess.TimeoutExpired is raised. A wait
\* that returns has reaped the process: the OS keeps its status no longer.
Wait(t) ==
    /\ pc[t] = "wait"
    /\ calls' = [calls EXCEPT ![t] = Append(@, "wait")]
    /\ \/ /\ proc[t] = "exited"
          /\ pc' = [pc EXCEPT ![t] = OnExited]
          /\ status' = [status EXCEPT ![t] = None]
          /\ UNCHANGED proc
       \/ /\ proc[t] = "running"
          /\ proc' = [proc EXCEPT ![t] = "exited"]
          /\ pc' = [pc EXCEPT ![t] = OnExited]
          /\ UNCHANGED status
       \/ /\ proc[t] = "running"
          /\ pc' = [pc EXCEPT ![t] = OnTimeoutExpired]
          /\ UNCHANGED <<proc, status>>
    /\ UNCHANGED <<polls, poll_result, all_refused, disk, tested, lock, audit, example, port, sock, env_port, i, logs,
                   gets, sleeps, last, hellos, pending, result>>

\* except subprocess.TimeoutExpired: process.kill()
Kill(t) ==
    /\ pc[t] = "kill"
    /\ calls' = [calls EXCEPT ![t] = Append(@, "kill")]
    /\ pc' = [pc EXCEPT ![t] = "waitkilled"]
    /\ UNCHANGED <<polls, poll_result, all_refused, disk, tested, lock, audit, example, port, sock, proc, status,
                   env_port, i, logs, gets, sleeps, last, hellos, pending, result>>

\* process.wait() after the kill: returns once the process has exited, and
\* reaps it.
WaitKilled(t) ==
    /\ pc[t] = "waitkilled"
    /\ calls' = [calls EXCEPT ![t] = Append(@, "wait")]
    /\ proc' = [proc EXCEPT ![t] = "exited"]
    /\ status' = [status EXCEPT ![t] = None]
    /\ pc' = [pc EXCEPT ![t] = "pause"]
    /\ UNCHANGED <<polls, poll_result, all_refused, disk, tested, lock, audit, example, port, sock, env_port, i, logs,
                   gets, sleeps, last, hellos, pending, result>>

\* Mutant of Pause: the sleep is outside the with block, so the lock is
\* given up before it.
PauseUnlocked(t) ==
    /\ pc[t] = "pause"
    /\ calls' = [calls EXCEPT ![t] = Append(@, "sleep")]
    /\ pc' = [pc EXCEPT ![t] = "release"]
    /\ lock' = FALSE
    /\ UNCHANGED <<polls, poll_result, all_refused, disk, tested, audit, example, port, sock, proc, status,
                   env_port, i, logs, gets, sleeps, last, hellos, pending, result>>

\* time.sleep(1)
Pause(t) ==
    /\ pc[t] = "pause"
    /\ calls' = [calls EXCEPT ![t] = Append(@, "sleep")]
    /\ pc' = [pc EXCEPT ![t] = "release"]
    /\ UNCHANGED <<polls, poll_result, all_refused, disk, tested, lock, audit, example, port, sock, proc, status,
                   env_port, i, logs, gets, sleeps, last, hellos, pending, result>>

\* Mutant of Delivery: the self.fail after the finally is missing.
DeliverySilent(t) ==
    IF pending[t].kind = "none"
    THEN Result("success", None, <<>>)
    ELSE pending[t]

\* What leaves the with block: the pending return or exception, or, when
\* the try block ran to its end, the self.fail after the finally.
Delivery(t) ==
    IF pending[t].kind = "none"
    THEN Result("unreachable", None, logs[t])
    ELSE pending[t]

\* Mutant of LockAfterExit: acquire() and release() without with or
\* try/finally, so an exception skips the release.
LockAfterExitLeaks(t) == Delivery(t).kind # "success"

\* with self.__class__._test_lock: (exit) the lock is released whether the
\* block returns or raises.
LockAfterExit(t) == FALSE

\* The with block is left: the lock is released and the call returns or
\* raises; the locals of the call are gone.
Release(t) ==
    /\ pc[t] = "release"
    /\ lock' = LockAfterExit(t)
    /\ result' = [result EXCEPT ![t] = Delivery(t)]
    /\ pc' = [pc EXCEPT ![t] = "done"]
    /\ port' = [port EXCEPT ![t] = None]
    /\ sock' = [sock EXCEPT ![t] = "none"]
    /\ status' = [status EXCEPT ![t] = None]
    /\ poll_result' = [poll_result EXCEPT ![t] = None]
    /\ polls' = [polls EXCEPT ![t] = 0]
    /\ all_refused' = [all_refused EXCEPT ![t] = TRUE]
    /\ env_port' = [env_port EXCEPT ![t] = None]
    /\ i' = [i EXCEPT ![t] = 0]
    /\ logs' = [logs EXCEPT ![t] = <<>>]
    /\ gets' = [gets EXCEPT ![t] = 0]
    /\ sleeps' = [sleeps EXCEPT ![t] = 0]
    /\ last' = [last EXCEPT ![t] = NoReply]
    /\ hellos' = [hellos EXCEPT ![t] = {}]
    /\ calls' = [calls EXCEPT ![t] = <<>>]
    /\ pending' = [pending EXCEPT ![t] = NoResult]
    /\ UNCHANGED <<disk, tested, audit, example, proc>>

\* tearDownClass, once no test method is running.
TearDownClass ==
    /\ audit = NoAudit
    /\ \A t \in Threads : pc[t] \in {"idle", "done"}
    /\ audit' = AuditOf(ExampleDirs, tested)
    /\ UNCHANGED <<polls, poll_result, all_refused, disk, tested, lock, pc, example, port, sock, proc, status, env_port,
                   i, logs, gets, sleeps, last, hellos, calls, pending, result>>

NextOf(T) ==
    \/ \E t \in T, ex \in Examples : Call(t, ex)
    \/ \E t \in T : AcquireLock(t)
    \/ \E t \in T : Register(t)
    \/ \E t \in T : CheckDir(t)
    \/ \E t \in T : Bind(t)
    \/ \E t \in T : Close(t)
    \/ \E t \in T : Launch(t)
    \/ \E t \in T : ProcExit(t)
    \/ \E t \in T : Poll(t)
    \/ \E t \in T, r \in Replies : Attempt(t, r)
    \/ \E t \in T : Terminate(t)
    \/ \E t \in T : Wait(t)
    \/ \E t \in T : Kill(t)
    \/ \E t \in T : WaitKilled(t)
    \/ \E t \in T : Pause(t)
    \/ \E t \in T : Release(t)
    \/ TearDownClass

Next == NextOf(Threads)

\* The test methods run one after the other, as unittest runs them.
NextSeq == NextOf({1})

Spec == Init /\ [][Next]_vars

\* Each test method calls _run_flask_target once.
CallOnce(t, ex) == pc[t] = "idle" /\ Call(t, ex)

\* The next statement of thread t inside _run_flask_target. The blocking
\* calls return: urlopen within its timeout, the waits once the process has
\* exited.
Step(t) ==
    \/ AcquireLock(t)
    \/ Register(t)
    \/ CheckDir(t)
    \/ Bind(t)
    \/ Close(t)
    \/ Launch(t)
    \/ Poll(t)
    \/ \E r \in Replies : Attempt(t, r)
    \/ Terminate(t)
    \/ Wait(t)
    \/ Kill(t)
    \/ WaitKilled(t)
    \/ Pause(t)
    \/ Release(t)

NextOnce ==
    \/ \E t \in Threads, ex \in Examples : CallOnce(t, ex)
    \/ \E t \in Threads : Step(t)
    \/ \E t \in Threads : ProcExit(t)
    \/ TearDownClass

\* The test methods run in threads of their own, one call each, and every
\* thread that can take its next statement is scheduled in the end. The
\* lock gives no order among the waiting threads.
SpecFair ==
    /\ Init
    /\ [][NextOnce]_vars
    /\ \A t \in Threads : WF_vars(Step(t))

SpecAudit == InitAudit /\ [][NextSeq]_vars

(***************************************************************************)
(* Properties                                                              *)
(***************************************************************************)

Range(seq) == {seq[k] : k \in 1 .. Len(seq)}

\* Inside the finally block.
InFinally == {"terminate", "wait", "kill", "waitkilled", "pause"}

\* Inside the with block.
InWith == {"register", "checkdir", "bind", "close", "launch", "poll", "attempt",
           "release"} \cup InFinally

\* From the port acquisition to the end of the cleanup.
Active == {"close", "launch", "poll", "attempt"} \cup InFinally

FailureKinds == {"target_not_found", "premature_exit", "content_mismatch",
                 "unreachable", "error"}

\* C1: a run that launched its process delivers its result only after
\* terminate() was called and the process has exited, on every exit path;
\* no run ends with its process still running.
C1_ProcessGoneBeforeDelivery ==
    \A t \in Threads :
        /\ pc[t] = "release" /\ proc[t] # "none"
              => /\ proc[t] = "exited"
                 /\ "terminate" \in Range(calls[t])
        /\ pc[t] = "done" => proc[t] # "running"
        /\ proc[t] = "running" => pc[t] \in {"poll", "attempt"} \cup InFinally

\* C1 witness: all attempts failed, the process ignored the termination
\* request and was killed, and the failure is about to be delivered.
C1_Witness ==
    \E t \in Threads :
        /\ pc[t] = "release"
        /\ Delivery(t).kind = "unreachable"
        /\ calls[t] = <<"terminate", "wait", "kill", "wait", "sleep">>
        /\ proc[t] = "exited"

\* C2: at most one run is inside the with block, and so at most one run is
\* between its port acquisition and the end of its cleanup, holds a port or
\* has a process.
C2_OneRunAtATime ==
    \A t, u \in Threads :
        t # u =>
            /\ ~(pc[t] \in InWith /\ pc[u] \in InWith)
            /\ ~(pc[t] \in Active /\ pc[u] \in Active)
            /\ ~(port[t] # None /\ port[u] # None)
            /\ ~(proc[t] = "running" /\ proc[u] = "running")

\* C2 witness: one run polls its process while another waits for the lock.
C2_Witness ==
    \E t, u \in Threads :
        /\ t # u
        /\ pc[t] = "attempt" /\ proc[t] = "running" /\ gets[t] > 0
        /\ pc[u] = "lock"

\* C3, as stated: a run succeeds iff some attempt received a response whose
\* body is the expected one (whatever its status).
C3_Original ==
    \A t \in Threads :
        pc[t] = "release" => (Delivery(t).kind = "success" <=> hellos[t] # {})

\* C3, amended: a run succeeds iff some attempt received a success-status
\* response whose body is the expected one; every other end is a failure.
C3_SuccessIffOkHello ==
    \A t \in Threads :
        /\ pc[t] = "release"
              => /\ Delivery(t).kind = "success" <=> (\E st \in hellos[t] : st < 400)
                 /\ Delivery(t).kind \in {"success"} \cup FailureKinds
        /\ pc[t] = "done" => result[t].kind \in {"success"} \cup FailureKinds
        /\ pc[t] = "attempt" => ~(\E st \in hellos[t] : st < 400)

\* C3 witness: a success after attempts that failed, one of them with an
\* error status and the expected body.
C3_Witness ==
    \E t \in Threads :
        /\ pc[t] = "release"
        /\ Delivery(t).kind = "success"
        /\ hellos[t] = {200, 500}
        /\ Len(logs[t]) > 1

\* C4, as stated: when every attempt is refused, exactly max_tries GETs are
\* made, never more, and the failure carries max_tries log entries.
C4_Original ==
    \A t \in Threads :
        gets[t] > 0 /\ all_refused[t] =>
            /\ gets[t] <= max_tries
            /\ pc[t] = "release"
                  => /\ Delivery(t).kind = "unreachable"
                     /\ gets[t] = max_tries
                     /\ Len(Delivery(t).logs) = max_tries

\* C5, as stated: polling stops at the first attempt that gets an HTTP
\* response of any status, and nothing is logged for that attempt.
C5_Original ==
    \A t \in Threads :
        gets[t] > 0 /\ last[t].net = "reply" =>
            /\ pc[t] # "attempt"
            /\ gets[t] = i[t] + 1
            /\ LogEntry(i[t]) \notin Range(logs[t])

\* C5, amended: polling stops at the first attempt whose urlopen returns a
\* response (a success status): no GET follows and nothing is logged for it.
\* An error status (HTTPError) is logged and retried like a refused
\* connection (URLError), and nothing else leads to a retry.
C5_StopsAtFirstReturnedResponse ==
    \A t \in Threads :
        gets[t] > 0 =>
            /\ urlopen(last[t]) = "response"
                  => /\ pc[t] \in InFinally \cup {"release"}
                     /\ gets[t] = i[t] + 1
                     /\ LogEntry(i[t]) \notin Range(logs[t])
            /\ pc[t] = "attempt"
                  => /\ urlopen(last[t]) \in {"HTTPError", "URLError"}
                     /\ gets[t] = i[t]
                     /\ LogEntry(i[t] - 1) \in Range(logs[t])

\* C5 witness: an error status was retried and a later attempt got a
\* success status, after which the run is in its cleanup.
C5_Witness ==
    \E t \in Threads :
        /\ pc[t] = "terminate"
        /\ urlopen(last[t]) = "response"
        /\ ~all_refused[t]
        /\ 500 \in hellos[t]
        /\ gets[t] > 2

\* C6, as stated: a response of any status with another body fails the run
\* with content-mismatch at that attempt, with no further attempt or sleep.
C6_Original ==
    \A t \in Threads :
        gets[t] > 0 /\ last[t].net = "reply" /\ last[t].body # Expected =>
            /\ pc[t] \in InFinally \cup {"release"}
            /\ pending[t].kind = "content_mismatch"
            /\ gets[t] = i[t] + 1
            /\ sleeps[t] = i[t]

\* C6, amended: a success-status response with another body fails the run
\* with content-mismatch at that attempt, with no further attempt or sleep,
\* wherever in the loop it comes.
C6_MismatchFailsAtOnce ==
    \A t \in Threads :
        /\ gets[t] > 0 /\ urlopen(last[t]) = "response" /\ last[t].body # Expected
              => /\ pc[t] \in InFinally \cup {"release"}
                 /\ pending[t].kind = "content_mismatch"
                 /\ gets[t] = i[t] + 1
                 /\ sleeps[t] = i[t]
        /\ pending[t].kind = "content_mismatch"
              => urlopen(last[t]) = "response" /\ last[t].body # Expected

\* C6 witness: a mismatch after earlier attempts failed to connect and with
\* attempts remaining.
C6_Witness ==
    \E t \in Threads :
        /\ pc[t] = "release"
        /\ pending[t].kind = "content_mismatch"
        /\ i[t] = 2 /\ gets[t] = 3 /\ sleeps[t] = 2

\* C7: when the status check after the launch finds the process ended, the
\* run fails with premature-exit carrying that exit code, issues no GET and
\* goes through the cleanup; otherwise it is no premature exit.
C7_PrematureExit ==
    \A t \in Threads :
        /\ poll_result[t] # None
              => /\ pending[t] = Result("premature_exit", poll_result[t], <<>>)
                 /\ pc[t] \in InFinally \cup {"release"}
                 /\ gets[t] = 0
                 /\ pc[t] = "terminate" => status[t] = poll_result[t]
                 /\ pc[t] = "release" => "terminate" \in Range(calls[t])
        /\ pending[t].kind = "premature_exit" => poll_result[t] # None

\* C7 witness: the process ended with code 0 before the status check, and
\* the failure is about to be delivered after the cleanup.
C7_Witness ==
    \E t \in Threads :
        /\ pc[t] = "release"
        /\ Delivery(t) = Result("premature_exit", Some(0), <<>>)
        /\ calls[t] = <<"terminate", "wait", "sleep">>

\* The lock is held exactly while some run is inside the with block.
LockHeldOnlyInside == lock <=> (\E u \in Threads : pc[u] \in InWith)

\* C8: a missing target directory fails the run with target-not-found at
\* once: no port, no socket, no process, no GET, and the lock is released.
C8_TargetNotFound ==
    /\ LockHeldOnlyInside
    /\ \A t \in Threads :
        /\ pc[t] \in InWith \ {"register", "checkdir"} /\ disk[example[t]] = "absent"
              => /\ pc[t] = "release"
                 /\ pending[t].kind = "target_not_found"
        /\ pc[t] = "done" /\ disk[example[t]] = "absent"
              => result[t].kind = "target_not_found"
        /\ pending[t].kind = "target_not_found" \/ result[t].kind = "target_not_found"
              => /\ port[t] = None /\ sock[t] = "none" /\ env_port[t] = None
                 /\ proc[t] = "none"
                 /\ gets[t] = 0
                 /\ calls[t] = <<>>

\* C8 witness: a run on a missing directory has failed and the lock is free.
C8_Witness ==
    \E t \in Threads :
        /\ pc[t] = "done"
        /\ result[t].kind = "target_not_found"
        /\ ~lock

\* C9: the audit passes iff the registry equals the discovered directories.
C9_AuditPassesIffEqual ==
    audit # NoAudit =>
        /\ audit.kind \in {"pass", "untested", "non_existent"}
        /\ audit.kind = "pass" <=> tested = ExampleDirs

\* C9 witness: the audit passed after two examples were verified.
C9_Witness ==
    /\ audit.kind = "pass"
    /\ tested = {"rules_venv", "rules_python"}

\* C10: when a discovered directory is not in the registry, the audit fails
\* with the untested condition and lists exactly discovered minus registry.
C10_UntestedListed ==
    audit # NoAudit =>
        /\ ExampleDirs \ tested # {}
              => audit = [kind |-> "untested", names |-> ExampleDirs \ tested]
        /\ audit.kind = "untested" => ExampleDirs \ tested # {}

\* C10 witness: two directories on disk, one verified: the other is listed.
C10_Witness ==
    /\ audit = [kind |-> "untested", names |-> {"rules_python"}]
    /\ tested = {"rules_venv"}
    /\ ExampleDirs = {"rules_venv", "rules_python"}

\* C11, as stated: whenever the registry holds a name that is no discovered
\* directory, the audit reports the non-existent condition with exactly
\* registry minus discovered, also when discovered directories are untested.
C11_Original ==
    audit # NoAudit /\ tested \ ExampleDirs # {}
        => audit = [kind |-> "non_existent", names |-> tested \ ExampleDirs]

\* C11, amended: the non-existent condition is reported, with exactly
\* registry minus discovered, when the registry holds such a name and no
\* discovered directory is untested; when some discovered directory is
\* untested as well, the audit reports the untested condition alone.
C11_PhantomListedUnlessUntested ==
    audit # NoAudit =>
        /\ tested \ ExampleDirs # {} /\ ExampleDirs \ tested = {}
              => audit = [kind |-> "non_existent", names |-> tested \ ExampleDirs]
        /\ tested \ ExampleDirs # {} /\ ExampleDirs \ tested # {}
              => audit = [kind |-> "untested", names |-> ExampleDirs \ tested]
        /\ audit.kind = "non_existent"
              => tested \ ExampleDirs # {} /\ ExampleDirs \ tested = {}

\* C11 witness: two examples verified, one of them on disk: the other is
\* listed as non-existent.
C11_Witness ==
    /\ audit = [kind |-> "non_existent", names |-> {"rules_python"}]
    /\ tested = {"rules_venv", "rules_python"}
    /\ ExampleDirs = {"rules_venv"}

\* C12: while a run is in its cleanup or in the pause after it, it holds the
\* lock and no other run is inside the with block, holds a port or has a
\* running process; a run that launched a process leaves the with block
\* only after terminate, the last wait and the pause, in that order.
C12_CleanupBeforeNextRun ==
    \A t \in Threads :
        /\ pc[t] \in InFinally \cup {"release"}
              => /\ lock
                 /\ \A u \in Threads \ {t} :
                        /\ pc[u] \notin InWith
                        /\ port[u] = None
                        /\ proc[u] # "running"
        /\ pc[t] = "release" /\ proc[t] # "none"
              => /\ calls[t] \in {<<"terminate", "wait", "sleep">>,
                                  <<"terminate", "wait", "kill", "wait", "sleep">>}
                 /\ proc[t] = "exited"

\* C12 witness: one run is in the pause after its cleanup while the next
\* one waits for the lock.
C12_Witness ==
    \E t, u \in Threads :
        /\ t # u
        /\ pc[t] = "pause" /\ calls[t] = <<"terminate", "wait">>
        /\ proc[t] = "exited"
        /\ pc[u] = "lock"

\* C13, as stated: every attempt that ends in a connection-level error (a
\* refused connection or a timeout) has appended one entry to the log, the
\* log then has one entry per attempt made, and a sleep followed each of
\* these attempts except the final one.
C13_Original ==
    \A t \in Threads :
        gets[t] > 0 /\ last[t].net \in {"refused", "stalled"} =>
            /\ LogEntry(gets[t] - 1) \in Range(logs[t])
            /\ Len(logs[t]) = gets[t]
            /\ sleeps[t] = IF gets[t] = Tries THEN gets[t] - 1 ELSE gets[t]

\* C14: the cleanup calls terminate, then the bounded wait; kill is called
\* only after that wait timed out with the process still running, and is
\* followed by a second wait; the pause comes only once the process has
\* exited, and nothing else is called in between.
C14_CleanupOrder ==
    \A t \in Threads :
        /\ pc[t] = "terminate" => calls[t] = <<>>
        /\ pc[t] = "wait" => calls[t] = <<"terminate">>
        /\ pc[t] = "kill"
              => calls[t] = <<"terminate", "wait">> /\ proc[t] = "running"
        /\ pc[t] = "waitkilled"
              => calls[t] = <<"terminate", "wait", "kill">>
        /\ pc[t] = "pause"
              => /\ calls[t] \in {<<"terminate", "wait">>,
                                  <<"terminate", "wait", "kill", "wait">>}
                 /\ proc[t] = "exited"
        /\ "sleep" \in Range(calls[t])
              => /\ calls[t] \in {<<"terminate", "wait", "sleep">>,
                                  <<"terminate", "wait", "kill", "wait", "sleep">>}
                 /\ proc[t] = "exited"

\* C14 witness: the process outlived the grace period, was killed and
\* waited for, and the pause is next.
C14_Witness ==
    \E t \in Threads :
        /\ pc[t] = "pause"
        /\ calls[t] = <<"terminate", "wait", "kill", "wait">>
        /\ proc[t] = "exited"
        /\ pending[t].kind = "success"

\* C15: the probe socket is closed before the process is launched: no
\* socket is bound while a process runs, a run that launched its process
\* has closed its socket, and FLASK_RUN_PORT holds the digits of the port
\* read from that socket, which is the port the process listens on.
C15_ProbeClosedBeforeLaunch ==
    \A t \in Threads :
        /\ sock[t] = "bound"
              => /\ pc[t] = "close"
                 /\ \A u \in Threads : proc[u] # "running"
        /\ pc[t] = "launch" => sock[t] = "closed" /\ port[t] \in {Some(p) : p \in Ports}
        /\ pc[t] \in {"poll", "attempt"} \cup InFinally
              => /\ sock[t] = "closed"
                 /\ port[t] \in {Some(p) : p \in Ports}
                 /\ env_port[t] = Some(str(port[t][1]))
                 /\ ListenPort(t) = port[t][1]

\* C15 witness: the process runs on the second port, the one that was read
\* from the probe socket, and the socket is closed.
C15_Witness ==
    \E t \in Threads :
        /\ pc[t] = "poll"
        /\ proc[t] = "running"
        /\ sock[t] = "closed"
        /\ port[t] = Some(49153)
        /\ env_port[t] = Some(<<4, 9, 1, 5, 3>>)
        /\ ListenPort(t) = 49153

\* C16: the lock is never held once no run is inside the with block, and
\* under fair scheduling every run that was called acquires the lock,
\* leaves the with block and returns or raises, whatever the other runs end
\* with: in the end no run is waiting for the lock or inside the with
\* block, and the lock is free.
C16_EveryRunCompletes ==
    /\ [](lock => \E u \in Threads : pc[u] \in InWith)
    /\ <>[](/\ ~lock
            /\ \A t \in Threads :
                  /\ pc[t] \in {"idle", "done"}
                  /\ pc[t] = "done" => result[t] # NoResult)

\* C16 witness: one run has ended with a failure raised during polling and
\* the run that waited for the lock has just acquired it.
C16_Witness ==
    \E t, u \in Threads :
        /\ t # u
        /\ pc[t] = "done" /\ result[t].kind = "content_mismatch"
        /\ pc[u] = "register" /\ lock

\* C17: the name of a run is in the registry from the statement before the
\* directory check on, through the run and after it, whatever the run ends
\* with, and no step removes a name from the registry.
C17_RegisteredAtStart ==
    /\ [](\A t \in Threads :
             pc[t] \in (InWith \ {"register"}) \cup {"done"} => example[t] \in tested)
    /\ [][tested \subseteq tested']_vars

\* C17 witness: a run for a missing directory has failed, and its name is in
\* the registry.
C17_Witness ==
    \E t \in Threads :
        /\ pc[t] = "done"
        /\ result[t].kind = "target_not_found"
        /\ disk[example[t]] = "absent"
        /\ example[t] \in tested

\* C18: process.poll() is called once in a run, after the launch and before
\* the first GET. When the process ends after that call, the run goes on
\* polling, makes all its attempts, and fails as unreachable, not as a
\* premature exit.
C18_StatusCheckedOnce ==
    \A t \in Threads :
        /\ polls[t] <= 1
        /\ pc[t] \in {"register", "checkdir", "bind", "close", "launch", "poll"}
              => polls[t] = 0 /\ gets[t] = 0
        /\ pc[t] \in {"attempt"} \cup InFinally => polls[t] = 1
        /\ pc[t] = "attempt" /\ proc[t] = "exited"
              => poll_result[t] = None /\ pending[t].kind = "none"
        /\ pc[t] = "terminate" /\ proc[t] = "exited" /\ poll_result[t] = None
              => /\ gets[t] = max_tries + 1
                 /\ last[t].net = "refused"
                 /\ Delivery(t) = Result("unreachable", None, logs[t])
                 /\ Len(logs[t]) = gets[t]

\* C18 witness: the process answered an attempt with an error status, ended
\* later during polling, and the run has made all its attempts.
C18_Witness ==
    \E t \in Threads :
        /\ pc[t] = "terminate"
        /\ proc[t] = "exited" /\ poll_result[t] = None /\ polls[t] = 1
        /\ ~all_refused[t]
        /\ pending[t].kind = "none"
        /\ gets[t] = max_tries + 1

====
